---- MODULE Spec2Model ----
(***************************************************************************)
(* DMA-driven UART receive path of teensy-experiments (dma_uart.rs).       *)
(*                                                                         *)
(* Two execution contexts on one core: the main context, which runs        *)
(* DmaUart::new once and then poll/consume/clear/get_buffer, and the       *)
(* interrupt handler DMA7_DMA23, which preempts the main context between   *)
(* any two of its steps (but not inside a `free` critical section) and     *)
(* runs to completion.  The DMA hardware is a third actor that completes   *)
(* an armed transfer at any time.                                          *)
(*                                                                         *)
(* Option<T> values are sequences of length at most one: <<>> is None and  *)
(* <<b>> is Some(b).  A ring buffer is a record [data, reserved]: the      *)
(* readable bytes in FIFO order and the element count set by reserve().    *)
(* The array read_buffer is a sequence indexed from 1, so Rust's index i   *)
(* is index i + 1 here.                                                    *)
(***************************************************************************)
EXTENDS FiniteSets, Integers, Sequences, TLC

\* Program constant (dma_uart.rs:14).
RX_RESERV == 1

\* Capacity of the ring buffer, RX_BUF_SZ = 64 in the source, scaled down.
RX_BUF_SZ == 2

\* Length of DmaUart::read_buffer, 1024 in the source, scaled down.
READ_BUF_SZ == 3

\* Bytes are 0..MaxByte instead of 0..255.
MaxByte == 1

Byte == 0..MaxByte

\* Arguments tried for consume(count): below, at and above any cursor, and
\* large enough that 2 * count passes the window capacity.
Counts == 0..(READ_BUF_SZ + 1)

None == <<>>

Some(b) == <<b>>

Min(a, b) == IF a <= b THEN a ELSE b

\* 1 for Some(_), 0 for None.
Held(x) == IF x = None THEN 0 ELSE 1

\* The bytes one DMA transfer can deliver: at least one, at most the ring.
Deliveries == UNION {[1..k -> Byte] : k \in 1..RX_BUF_SZ}

VARIABLES
    pc,               \* position of the main context
    hpc,              \* position of the interrupt handler ("idle": not running)
    RX_BUFFER,        \* the Shared Slot, Option<Circular>
    RX_READY,         \* the Ready Flag
    armed,            \* buffer held by the DMA peripheral, Option<Circular>
    dma_done,         \* the armed transfer has completed
    rx_irq,           \* is_receive_interrupt(): completion interrupt pending
    rx_buffer,        \* local rx_buffer of new()/poll(), Option<Circular>
    data,             \* local data of the handler, Option<Circular>
    res,              \* result of the last start_receive: "none", "Ok", "Err"
    read_buffer,      \* DmaUart::read_buffer
    read_buffer_pos,  \* DmaUart::read_buffer_pos, the cursor
    halt_log,         \* message logged before halt!(), or "none"
    op,               \* history: last API call [name, arg, twice]
    prev,             \* history: get_buffer() before the last call, if a consume
    hist,             \* history: bytes delivered by the hardware since tracking began
    track,            \* history: "new", "clear" (tracking since then) or "off"
    masked,           \* interrupts are disabled: the main context is inside free()
    undrained,        \* history: buffers the handler put in the slot minus buffers poll() took
    reserve_fresh     \* history: reserve() was called since the last start_receive

vars == <<pc, hpc, RX_BUFFER, RX_READY, armed, dma_done, rx_irq, rx_buffer, data,
          res, read_buffer, read_buffer_pos, halt_log, op, prev, hist, track,
          masked, undrained, reserve_fresh>>

handoff == <<RX_BUFFER, RX_READY, armed, dma_done, rx_irq>>

window == <<read_buffer, read_buffer_pos>>

history == <<op, prev, hist, track>>

Zeroes == [i \in 1..READ_BUF_SZ |-> 0]

\* &self.read_buffer[..self.read_buffer_pos]
get_buffer == SubSeq(read_buffer, 1, read_buffer_pos)

\* halt!(): log, then stop forever.
Halted == pc = "halt"

\* The panic handler: log, then loop forever.
Panicked == pc = "panic"

\* The main context runs only while the handler is not running.
MainRuns == hpc = "idle"

\* cortex_m::interrupt::free(|cs| ...) is entered at position `at`:
\* interrupts are disabled before the closure runs.  The closure is the step
\* at position `body`, which enables them again as free() returns.
free(at, body) ==
    /\ pc = at /\ MainRuns
    /\ masked' = TRUE
    /\ pc' = body
    /\ UNCHANGED <<hpc, RX_BUFFER, RX_READY, armed, dma_done, rx_irq, rx_buffer, data,
                   res, read_buffer, read_buffer_pos, halt_log, op, prev, hist, track,
                   undrained, reserve_fresh>>

\* History record of an API call.  arg is the count of consume(count) and,
\* for poll(), the flag value it read (1 true, 0 false); twice says that the
\* call before it was a consume with the same count.
Call(name, arg) ==
    [name |-> name, arg |-> arg,
     twice |-> name = "consume" /\ op.name = "consume" /\ op.arg = arg]

----
\* State at DmaUart::new line 53: peripheral built, interrupt unmasked, the
\* ring buffer created and held by new()'s local rx_buffer.
Init ==
    /\ pc = "n_set"
    /\ hpc = "idle"
    /\ RX_BUFFER = None
    /\ RX_READY = FALSE
    /\ armed = None
    /\ dma_done = FALSE
    /\ rx_irq = FALSE
    /\ rx_buffer = Some([data |-> <<>>, reserved |-> 0])
    /\ data = None
    /\ res = "none"
    /\ read_buffer = Zeroes
    /\ read_buffer_pos = 0
    /\ halt_log = "none"
    /\ op = [name |-> "new", arg |-> 0, twice |-> FALSE]
    /\ prev = <<>>
    /\ hist = <<>>
    /\ track = "new"
    /\ masked = FALSE
    /\ undrained = 0
    /\ reserve_fresh = FALSE

----
\* start_receive(buffer): the peripheral refuses when a transfer is already
\* scheduled, and may refuse for a reason of its own; on success it holds
\* the buffer, on failure the buffer comes back inside the error.
start_receive(ok) ==
    /\ rx_buffer # None
    /\ IF ok /\ armed = None
       THEN /\ armed' = rx_buffer
            /\ rx_buffer' = None
            /\ dma_done' = FALSE
            /\ res' = "Ok"
       ELSE /\ UNCHANGED <<armed, rx_buffer, dma_done>>
            /\ res' = "Err"

\* Line 53: free(.
NewSetFree == free("n_set", "n_set_cs")

\* Lines 53-55: store the new buffer in the slot, inside free().
NewSet ==
    /\ pc = "n_set_cs" /\ MainRuns
    /\ RX_BUFFER' = rx_buffer
    /\ rx_buffer' = None
    /\ pc' = "n_take"
    /\ UNCHANGED <<hpc, RX_READY, armed, dma_done, rx_irq, data, res, window,
                   halt_log, history>>
    /\ masked' = FALSE
    /\ UNCHANGED <<undrained, reserve_fresh>>

\* Line 58: free(.
NewTakeFree == free("n_take", "n_take_cs")

\* Lines 57-61: take it back out, inside free(); halt if it is not there.
NewTake ==
    /\ pc = "n_take_cs" /\ MainRuns
    /\ rx_buffer' = RX_BUFFER
    /\ RX_BUFFER' = None
    /\ IF RX_BUFFER = None
       THEN pc' = "halt" /\ halt_log' = "RX buffer was not set"
       ELSE pc' = "n_reserve" /\ UNCHANGED halt_log
    /\ UNCHANGED <<hpc, RX_READY, armed, dma_done, rx_irq, data, res, window, history>>
    /\ masked' = FALSE
    /\ UNCHANGED <<undrained, reserve_fresh>>

\* Line 62: rx_buffer.reserve(RX_RESERV).
NewReserve ==
    /\ pc = "n_reserve" /\ MainRuns
    /\ rx_buffer' = Some([rx_buffer[1] EXCEPT !.reserved = RX_RESERV])
    /\ pc' = "n_start"
    /\ UNCHANGED <<hpc, handoff, data, res, window, halt_log, history>>
    /\ reserve_fresh' = TRUE
    /\ UNCHANGED <<masked, undrained>>

\* Line 63: dma_uart.start_receive(rx_buffer), interrupts enabled.
NewStartReceive ==
    /\ pc = "n_start" /\ MainRuns
    /\ \E ok \in BOOLEAN : start_receive(ok)
    /\ pc' = "n_check"
    /\ UNCHANGED <<hpc, RX_BUFFER, RX_READY, rx_irq, data, window, halt_log, history>>
    /\ reserve_fresh' = FALSE
    /\ UNCHANGED <<masked, undrained>>

\* Lines 63-66: halt on Err.
NewCheck ==
    /\ pc = "n_check" /\ MainRuns
    /\ IF res = "Err"
       THEN pc' = "halt" /\ halt_log' = "Error scheduling DMA receive"
       ELSE pc' = "n_store" /\ UNCHANGED halt_log
    /\ res' = "none"
    /\ UNCHANGED <<hpc, handoff, rx_buffer, data, window, history>>
    /\ UNCHANGED <<masked, undrained, reserve_fresh>>

\* Lines 67-72: RX_READY.store(false), then build and return Self.
NewFinish ==
    /\ pc = "n_store" /\ MainRuns
    /\ RX_READY' = FALSE
    /\ read_buffer' = Zeroes
    /\ read_buffer_pos' = 0
    /\ pc' = "idle"
    /\ UNCHANGED <<hpc, RX_BUFFER, armed, dma_done, rx_irq, rx_buffer, data, res,
                   halt_log, history>>
    /\ UNCHANGED <<masked, undrained, reserve_fresh>>

----
RECURSIVE DrainLoop(_, _, _, _)

\* Variant of DrainLoop without the bounds check on read_buffer[i]: bytes
\* past the end of the array are popped and dropped, and the loop ends
\* normally.
DrainLoop_Unchecked(rb, fifo, i, end) ==
    [read_buffer |-> [k \in 1..READ_BUF_SZ |->
                         IF k > i /\ k <= end THEN fifo[k - i] ELSE rb[k]],
     fifo |-> <<>>, panic |-> FALSE]

\* Lines 84-87, the loop `for i in pos..end { read_buffer[i] = pop().unwrap() }`
\* with i counted from 0.  The popped value is evaluated before the indexed
\* place, so at i = READ_BUF_SZ a byte is popped and the bounds check then
\* panics.
DrainLoop(rb, fifo, i, end) ==
    IF i >= end
    THEN [read_buffer |-> rb, fifo |-> fifo, panic |-> FALSE]
    ELSE IF i >= READ_BUF_SZ
         THEN [read_buffer |-> rb, fifo |-> Tail(fifo), panic |-> TRUE]
         ELSE DrainLoop([rb EXCEPT ![i + 1] = Head(fifo)], Tail(fifo), i + 1, end)

\* Variant of PollLoad that does not test the flag.
PollLoad_Always ==
    /\ pc = "idle" /\ MainRuns
    /\ pc' = "p_store"
    /\ op' = Call("poll", IF RX_READY THEN 1 ELSE 0)
    /\ prev' = <<>>
    /\ UNCHANGED <<hpc, handoff, rx_buffer, data, res, window, halt_log, hist, track>>
    /\ UNCHANGED <<masked, undrained, reserve_fresh>>

\* Line 76, the whole of poll() when the flag reads false: return.
\* When it reads true, go on to line 77.
PollLoad ==
    /\ pc = "idle" /\ MainRuns
    /\ pc' = IF RX_READY THEN "p_store" ELSE "idle"
    /\ op' = Call("poll", IF RX_READY THEN 1 ELSE 0)
    /\ prev' = <<>>
    /\ UNCHANGED <<hpc, handoff, rx_buffer, data, res, window, halt_log, hist, track>>
    /\ UNCHANGED <<masked, undrained, reserve_fresh>>

\* Variant of PollStore that leaves the flag set.
PollStore_NoClear ==
    /\ pc = "p_store" /\ MainRuns
    /\ pc' = "p_take"
    /\ UNCHANGED <<hpc, handoff, rx_buffer, data, res, window, halt_log, history>>
    /\ UNCHANGED <<masked, undrained, reserve_fresh>>

\* Line 77: RX_READY.store(false).
PollStore ==
    /\ pc = "p_store" /\ MainRuns
    /\ RX_READY' = FALSE
    /\ pc' = "p_take"
    /\ UNCHANGED <<hpc, RX_BUFFER, armed, dma_done, rx_irq, rx_buffer, data, res,
                   window, halt_log, history>>
    /\ UNCHANGED <<masked, undrained, reserve_fresh>>

\* Variant of PollTakeFree for a take that is not wrapped in free().
PollTakeFree_NoMask ==
    /\ pc = "p_take" /\ MainRuns
    /\ pc' = "p_take_cs"
    /\ UNCHANGED <<hpc, handoff, rx_buffer, data, res, window, halt_log, history>>
    /\ UNCHANGED <<masked, undrained, reserve_fresh>>

\* Line 79: free(.
PollTakeFree == free("p_take", "p_take_cs")

\* Variant of PollTake that reads the slot without emptying it.
PollTake_Copy ==
    /\ pc = "p_take_cs" /\ MainRuns
    /\ rx_buffer' = RX_BUFFER
    /\ IF RX_BUFFER = None
       THEN pc' = "halt" /\ halt_log' = "Failed to acquire RX buffer."
       ELSE pc' = "p_drain" /\ UNCHANGED halt_log
    /\ UNCHANGED <<hpc, handoff, data, res, window, history>>
    /\ masked' = FALSE
    /\ undrained' = undrained - Held(RX_BUFFER)
    /\ UNCHANGED reserve_fresh

\* Lines 78-82: take the buffer out of the slot inside free(); halt if empty.
PollTake ==
    /\ pc = "p_take_cs" /\ MainRuns
    /\ rx_buffer' = RX_BUFFER
    /\ RX_BUFFER' = None
    /\ IF RX_BUFFER = None
       THEN pc' = "halt" /\ halt_log' = "Failed to acquire RX buffer."
       ELSE pc' = "p_drain" /\ UNCHANGED halt_log
    /\ UNCHANGED <<hpc, RX_READY, armed, dma_done, rx_irq, data, res, window, history>>
    /\ masked' = FALSE
    /\ undrained' = undrained - Held(RX_BUFFER)
    /\ UNCHANGED reserve_fresh

\* Variant of PollDrain that writes from index 0 instead of the cursor.
PollDrain_FromZero ==
    /\ pc = "p_drain" /\ MainRuns
    /\ LET buf == rx_buffer[1]
           end == read_buffer_pos + Len(buf.data)
           out == DrainLoop(read_buffer, buf.data, 0, Len(buf.data))
       IN  /\ read_buffer' = out.read_buffer
           /\ rx_buffer' = Some([buf EXCEPT !.data = out.fifo])
           /\ IF end > READ_BUF_SZ
              THEN pc' = "panic" /\ UNCHANGED read_buffer_pos
              ELSE pc' = "p_start" /\ read_buffer_pos' = end
    /\ UNCHANGED <<hpc, handoff, data, res, halt_log, history>>
    /\ UNCHANGED <<masked, undrained, reserve_fresh>>

\* Variant of PollDrain that saturates: bytes that do not fit are dropped
\* and poll() goes on to re-arm.
PollDrain_Saturate ==
    /\ pc = "p_drain" /\ MainRuns
    /\ LET buf == rx_buffer[1]
           end == Min(read_buffer_pos + Len(buf.data), READ_BUF_SZ)
           out == DrainLoop(read_buffer, buf.data, read_buffer_pos, end)
       IN  /\ read_buffer' = out.read_buffer
           /\ rx_buffer' = Some([buf EXCEPT !.data = <<>>])
           /\ pc' = "p_start"
           /\ read_buffer_pos' = end
    /\ UNCHANGED <<hpc, handoff, data, res, halt_log, history>>
    /\ UNCHANGED <<masked, undrained, reserve_fresh>>

\* Variant of PollDrain that copies the bytes without popping them.
PollDrain_NoPop ==
    /\ pc = "p_drain" /\ MainRuns
    /\ LET buf == rx_buffer[1]
           end == read_buffer_pos + Len(buf.data)
           out == DrainLoop(read_buffer, buf.data, read_buffer_pos, end)
       IN  /\ read_buffer' = out.read_buffer
           /\ IF out.panic
              THEN pc' = "panic" /\ UNCHANGED read_buffer_pos
              ELSE pc' = "p_start" /\ read_buffer_pos' = end
    /\ UNCHANGED <<hpc, handoff, rx_buffer, data, res, halt_log, history>>
    /\ UNCHANGED <<masked, undrained, reserve_fresh>>

\* Lines 84-88: pop every byte into the window; the cursor moves only when
\* the loop ran to its end.
PollDrain ==
    /\ pc = "p_drain" /\ MainRuns
    /\ LET buf == rx_buffer[1]
           end == read_buffer_pos + Len(buf.data)
           out == DrainLoop(read_buffer, buf.data, read_buffer_pos, end)
       IN  /\ read_buffer' = out.read_buffer
           /\ rx_buffer' = Some([buf EXCEPT !.data = out.fifo])
           /\ IF out.panic
              THEN pc' = "panic" /\ UNCHANGED read_buffer_pos
              ELSE pc' = "p_start" /\ read_buffer_pos' = end
    /\ UNCHANGED <<hpc, handoff, data, res, halt_log, history>>
    /\ UNCHANGED <<masked, undrained, reserve_fresh>>

\* Line 91: free(.
PollStartFree == free("p_start", "p_start_cs")

\* Lines 90-91: start_receive(rx_buffer) inside free().
PollStartReceive ==
    /\ pc = "p_start_cs" /\ MainRuns
    /\ \E ok \in BOOLEAN : start_receive(ok)
    /\ pc' = "p_check"
    /\ UNCHANGED <<hpc, RX_BUFFER, RX_READY, rx_irq, data, window, halt_log, history>>
    /\ masked' = FALSE
    /\ reserve_fresh' = FALSE
    /\ UNCHANGED undrained

\* Variant of PollCheck that ignores the result of start_receive.
PollCheck_IgnoreErr ==
    /\ pc = "p_check" /\ MainRuns
    /\ pc' = "idle"
    /\ res' = "none"
    /\ UNCHANGED <<hpc, handoff, rx_buffer, data, window, halt_log, history>>
    /\ UNCHANGED <<masked, undrained, reserve_fresh>>

\* Lines 92-96: halt on Err, else return.
PollCheck ==
    /\ pc = "p_check" /\ MainRuns
    /\ IF res = "Err"
       THEN pc' = "halt" /\ halt_log' = "Error scheduling DMA receive"
       ELSE pc' = "idle" /\ UNCHANGED halt_log
    /\ res' = "none"
    /\ UNCHANGED <<hpc, handoff, rx_buffer, data, window, history>>
    /\ UNCHANGED <<masked, undrained, reserve_fresh>>

----
\* self.read_buffer.copy_within(count.., 0): the elements from index count
\* to the end move to the front, the rest of the array keeps its bytes.
copy_within(rb, count) ==
    [i \in 1..READ_BUF_SZ |-> IF i + count <= READ_BUF_SZ THEN rb[i + count] ELSE rb[i]]

\* Variant of consume that moves the cursor without shifting the bytes.
consume_NoShift(rb, pos, count) ==
    [read_buffer |-> rb, read_buffer_pos |-> pos - Min(count, pos)]

\* Variant of consume without the clamp: a count above the cursor is ignored.
consume_NoClamp(rb, pos, count) ==
    LET n == IF count > pos THEN 0 ELSE count
    IN  [read_buffer |-> copy_within(rb, n), read_buffer_pos |-> pos - n]

\* Lines 104-110: the window [read_buffer, read_buffer_pos] after consume(count).
consume(rb, pos, count) ==
    LET n == Min(count, pos)
    IN  [read_buffer |-> copy_within(rb, n), read_buffer_pos |-> pos - n]

Consume(count) ==
    /\ pc = "idle" /\ MainRuns
    /\ LET w == consume(read_buffer, read_buffer_pos, count)
       IN  /\ read_buffer' = w.read_buffer
           /\ read_buffer_pos' = w.read_buffer_pos
    /\ op' = Call("consume", count)
    /\ prev' = get_buffer
    /\ hist' = <<>>
    /\ track' = "off"
    /\ UNCHANGED <<pc, hpc, handoff, rx_buffer, data, res, halt_log>>
    /\ UNCHANGED <<masked, undrained, reserve_fresh>>

\* Variant of Clear that zeroes the array and leaves the cursor.
Clear_KeepCursor ==
    /\ pc = "idle" /\ MainRuns
    /\ read_buffer' = Zeroes
    /\ op' = Call("clear", 0)
    /\ prev' = <<>>
    /\ hist' = <<>>
    /\ track' = IF armed # None /\ ~dma_done THEN "clear" ELSE "off"
    /\ UNCHANGED <<pc, hpc, handoff, rx_buffer, data, res, halt_log, read_buffer_pos>>
    /\ UNCHANGED <<masked, undrained, reserve_fresh>>

\* Variant of Clear that also resets the Ready Flag.
Clear_ResetFlag ==
    /\ pc = "idle" /\ MainRuns
    /\ read_buffer' = Zeroes
    /\ read_buffer_pos' = 0
    /\ RX_READY' = FALSE
    /\ op' = Call("clear", 0)
    /\ prev' = <<>>
    /\ hist' = <<>>
    /\ track' = IF armed # None /\ ~dma_done THEN "clear" ELSE "off"
    /\ UNCHANGED <<pc, hpc, RX_BUFFER, armed, dma_done, rx_irq, rx_buffer, data, res,
                   halt_log>>
    /\ UNCHANGED <<masked, undrained, reserve_fresh>>

\* Lines 112-115.  History: delivery tracking restarts when the buffer is
\* armed and waiting, so that every byte counted arrives after this clear().
Clear ==
    /\ pc = "idle" /\ MainRuns
    /\ read_buffer' = Zeroes
    /\ read_buffer_pos' = 0
    /\ op' = Call("clear", 0)
    /\ prev' = <<>>
    /\ hist' = <<>>
    /\ track' = IF armed # None /\ ~dma_done THEN "clear" ELSE "off"
    /\ UNCHANGED <<pc, hpc, handoff, rx_buffer, data, res, halt_log>>
    /\ UNCHANGED <<masked, undrained, reserve_fresh>>

----
\* The DMA engine completes the armed transfer: the bytes are in the ring
\* buffer and, as set_interrupt_on_completion(true) asks, the completion
\* interrupt is raised.
DmaTransfer ==
    /\ armed # None /\ ~dma_done
    /\ \E bs \in Deliveries :
          /\ armed' = Some([armed[1] EXCEPT !.data = bs])
          /\ hist' = IF track = "off" THEN hist ELSE hist \o bs
    /\ dma_done' = TRUE
    /\ rx_irq' = TRUE
    /\ UNCHANGED <<pc, hpc, RX_BUFFER, RX_READY, rx_buffer, data, res, window,
                   halt_log, op, prev, track>>
    /\ UNCHANGED <<masked, undrained, reserve_fresh>>

\* The interrupt line DMA7_DMA23 fires, for the receive completion or for
\* the other source that shares the line; lines 119-124.  It is taken only
\* while interrupts are enabled.
HandlerEnter ==
    /\ hpc = "idle" /\ ~masked
    /\ hpc' = "h_check"
    /\ UNCHANGED <<pc, handoff, rx_buffer, data, res, window, halt_log, history>>
    /\ UNCHANGED <<masked, undrained, reserve_fresh>>

\* Variant of HandlerCheck that does not test the interrupt cause.
HandlerCheck_Always ==
    /\ hpc = "h_check"
    /\ hpc' = "h_clear"
    /\ UNCHANGED <<pc, handoff, rx_buffer, data, res, window, halt_log, history>>
    /\ UNCHANGED <<masked, undrained, reserve_fresh>>

\* Line 126: if uart.is_receive_interrupt().
HandlerCheck ==
    /\ hpc = "h_check"
    /\ hpc' = IF rx_irq THEN "h_clear" ELSE "idle"
    /\ UNCHANGED <<pc, handoff, rx_buffer, data, res, window, halt_log, history>>
    /\ UNCHANGED <<masked, undrained, reserve_fresh>>

\* Variant of HandlerClear that leaves the interrupt pending.
HandlerClear_NoClear ==
    /\ hpc = "h_clear"
    /\ hpc' = "h_complete"
    /\ UNCHANGED <<pc, handoff, rx_buffer, data, res, window, halt_log, history>>
    /\ UNCHANGED <<masked, undrained, reserve_fresh>>

\* Line 127: uart.receive_clear_interrupt().
HandlerClear ==
    /\ hpc = "h_clear"
    /\ rx_irq' = FALSE
    /\ hpc' = "h_complete"
    /\ UNCHANGED <<pc, RX_BUFFER, RX_READY, armed, dma_done, rx_buffer, data, res,
                   window, halt_log, history>>
    /\ UNCHANGED <<masked, undrained, reserve_fresh>>

\* Variant of HandlerComplete that sets the Ready Flag before the slot is
\* written.
HandlerComplete_FlagFirst ==
    /\ hpc = "h_complete"
    /\ IF dma_done
       THEN data' = armed /\ armed' = None /\ dma_done' = FALSE
       ELSE data' = None /\ UNCHANGED <<armed, dma_done>>
    /\ RX_READY' = TRUE
    /\ hpc' = "h_write"
    /\ UNCHANGED <<pc, RX_BUFFER, rx_irq, rx_buffer, res, window, halt_log, history>>
    /\ UNCHANGED <<masked, undrained, reserve_fresh>>

\* Lines 128-129: let data = uart.receive_complete(): the completed buffer
\* leaves the peripheral, or None when no transfer has completed.
HandlerComplete ==
    /\ hpc = "h_complete"
    /\ IF dma_done
       THEN data' = armed /\ armed' = None /\ dma_done' = FALSE
       ELSE data' = None /\ UNCHANGED <<armed, dma_done>>
    /\ hpc' = "h_write"
    /\ UNCHANGED <<pc, RX_BUFFER, RX_READY, rx_irq, rx_buffer, res, window,
                   halt_log, history>>
    /\ UNCHANGED <<masked, undrained, reserve_fresh>>

\* Line 130: *rx_buffer = data.
HandlerWrite ==
    /\ hpc = "h_write"
    /\ RX_BUFFER' = data
    /\ data' = None
    /\ hpc' = "h_flag"
    /\ UNCHANGED <<pc, RX_READY, armed, dma_done, rx_irq, rx_buffer, res, window,
                   halt_log, history>>
    /\ undrained' = undrained + Held(data)
    /\ UNCHANGED <<masked, reserve_fresh>>

\* Line 131: RX_READY.store(true), then return.
HandlerFlag ==
    /\ hpc = "h_flag"
    /\ RX_READY' = TRUE
    /\ hpc' = "idle"
    /\ UNCHANGED <<pc, RX_BUFFER, armed, dma_done, rx_irq, rx_buffer, data, res,
                   window, halt_log, history>>
    /\ UNCHANGED <<masked, undrained, reserve_fresh>>

----
Next ==
    \/ NewSetFree
    \/ NewSet
    \/ NewTakeFree
    \/ NewTake
    \/ NewReserve
    \/ NewStartReceive
    \/ NewCheck
    \/ NewFinish
    \/ PollLoad
    \/ PollStore
    \/ PollTakeFree
    \/ PollTake
    \/ PollDrain
    \/ PollStartFree
    \/ PollStartReceive
    \/ PollCheck
    \/ \E count \in Counts : Consume(count)
    \/ Clear
    \/ DmaTransfer
    \/ HandlerEnter
    \/ HandlerCheck
    \/ HandlerClear
    \/ HandlerComplete
    \/ HandlerWrite
    \/ HandlerFlag

Spec == Init /\ [][Next]_vars

----
\* Helpers for the properties.

Bytes(x) == IF x = None THEN <<>> ELSE x[1].data

\* The delivered bytes not yet drained, wherever the ring buffer is.
InFlight == Bytes(armed) \o Bytes(data) \o Bytes(RX_BUFFER) \o Bytes(rx_buffer)

\* This step is a call of consume(count), with count = op'.arg.
ConsumeStep == op'.name = "consume" /\ Consume(op'.arg)

ScheduleError == "Error scheduling DMA receive"

----
\* C1: the ring buffer has exactly one holder at every instant: the DMA
\* hardware, the Shared Slot, or a local of new()/poll() (and, while the
\* handler runs, its local data); whenever the main context can observe
\* the state the holder is one of the first three; start_receive is only
\* issued while the hardware holds no buffer.
C1_SingleOwner ==
    /\ Held(armed) + Held(RX_BUFFER) + Held(rx_buffer) + Held(data) = 1
    /\ (hpc = "idle" => Held(armed) + Held(RX_BUFFER) + Held(rx_buffer) = 1)
    /\ (pc \in {"n_start", "p_start", "p_start_cs"} => armed = None /\ rx_buffer # None)

\* poll() has drained a completed buffer and armed it again.
C1_Witness ==
    /\ pc = "p_check" /\ res = "Ok" /\ op.name = "poll"
    /\ armed # None /\ RX_BUFFER = None /\ rx_buffer = None
    /\ read_buffer_pos > 0

\* C2: Ready Flag true implies the Shared Slot holds a buffer; once poll()
\* has read the flag true the slot stays full until poll() takes it, with
\* the handler running in between or not, and the halt "Failed to acquire
\* RX buffer." is never reached.
C2_ReadyImpliesSlot ==
    /\ (RX_READY => RX_BUFFER # None)
    /\ (pc \in {"p_store", "p_take", "p_take_cs"} => RX_BUFFER # None)
    /\ halt_log # "Failed to acquire RX buffer."

\* The handler runs between poll()'s flag read and its take of the slot.
C2_Witness ==
    /\ pc = "p_take" /\ hpc = "h_check" /\ op.arg = 1
    /\ RX_BUFFER # None

\* C3: with no consume()/clear() since new() and no more bytes delivered
\* than the window holds, get_buffer() followed by the bytes still in the
\* ring buffer is the sequence of all bytes delivered, in arrival order;
\* so after the poll() of each cycle get_buffer() is exactly that sequence.
C3_RoundTrip ==
    (track = "new" /\ Len(hist) <= READ_BUF_SZ) =>
        /\ get_buffer \o InFlight = hist
        /\ (pc = "idle" /\ armed # None /\ ~dma_done => get_buffer = hist)

\* Several cycles (one cannot fill the window) with differing bytes, all drained.
C3_Witness ==
    /\ track = "new" /\ pc = "idle" /\ op.name = "poll"
    /\ armed # None /\ ~dma_done
    /\ Len(hist) = READ_BUF_SZ /\ READ_BUF_SZ > RX_BUF_SZ
    /\ hist[1] # hist[READ_BUF_SZ]
    /\ get_buffer = hist

\* C4: consume(count) drops the first min(count, cursor) bytes of
\* get_buffer(): the cursor decreases by that number, the remaining bytes
\* keep their order and start at index 0, and a count above the cursor
\* leaves the cursor at 0.
C4_Consume ==
    [][ConsumeStep =>
          LET c == op'.arg
              n == Min(c, read_buffer_pos)
          IN  /\ read_buffer_pos' = read_buffer_pos - n
              /\ read_buffer_pos' >= 0
              /\ (c > read_buffer_pos => read_buffer_pos' = 0)
              /\ get_buffer' = SubSeq(get_buffer, n + 1, read_buffer_pos)]_vars

\* consume(2) on three bytes left the third one.
C4_Witness ==
    /\ op.name = "consume" /\ op.arg = 2
    /\ Len(prev) = 3 /\ prev[1] # prev[3]
    /\ get_buffer = <<prev[3]>>

\* C5: the cursor stays within the read window.
C5_CursorInBounds == read_buffer_pos \in 0..READ_BUF_SZ

\* The window is full after a poll().
C5_Witness == pc = "idle" /\ op.name = "poll" /\ read_buffer_pos = READ_BUF_SZ

\* C6: an error from start_receive, in new() or in poll(), leads to the
\* halt, and once halted the main context stays halted and the Shared
\* Slot, the Ready Flag, the armed state and the read window never change.
C6_StartReceiveErrorHalts ==
    [][/\ (res = "Err" /\ pc' # pc => Halted' /\ halt_log' = ScheduleError)
       /\ (Halted /\ halt_log = ScheduleError =>
              /\ Halted'
              /\ UNCHANGED <<RX_BUFFER, RX_READY, armed, dma_done, rx_irq, window>>)]_vars

\* Halted on a failed re-arm in poll(), with the handler invoked afterwards.
C6_Witness ==
    /\ Halted /\ halt_log = ScheduleError /\ op.name = "poll"
    /\ hpc = "h_check" /\ read_buffer_pos > 0

\* C7: a drain whose bytes do not fit in the read window ends in the panic
\* handler's loop and never returns; the cursor does not move, so
\* get_buffer() never shows a byte past the capacity.
C7_OverflowPanics ==
    [][/\ (/\ pc = "p_drain" /\ pc' # pc
           /\ read_buffer_pos + Len(rx_buffer[1].data) > READ_BUF_SZ
           => Panicked' /\ get_buffer' = get_buffer)
       /\ (Panicked => Panicked' /\ get_buffer' = get_buffer)
       /\ Len(get_buffer') <= READ_BUF_SZ]_vars

\* Panicked after writing the last slot of the array, which the cursor
\* does not cover.
C7_Witness ==
    /\ Panicked /\ read_buffer_pos = READ_BUF_SZ - 1
    /\ read_buffer[READ_BUF_SZ] = 1

\* C8: clear() leaves get_buffer() empty and does not touch the handoff
\* state; bytes delivered after it appear in get_buffer() from index 0 on,
\* in arrival order.
C8_Clear ==
    [][/\ (Clear =>
              /\ read_buffer_pos' = 0
              /\ get_buffer' = <<>>
              /\ UNCHANGED <<pc, handoff, rx_buffer>>)
       /\ (track' = "clear" /\ Len(hist') <= READ_BUF_SZ =>
              /\ get_buffer' \o InFlight' = hist'
              /\ (pc' = "idle" /\ armed' # None /\ ~dma_done' => get_buffer' = hist'))]_vars

\* After a clear(), a delivery and a poll(): the delivered bytes from index 0.
C8_Witness ==
    /\ track = "clear" /\ pc = "idle" /\ op.name = "poll" /\ op.arg = 1
    /\ Len(hist) = 2 /\ hist[1] # hist[2]
    /\ get_buffer = hist

\* C9: consume(0) changes neither get_buffer() nor the cursor, and
\* consume(count) twice in a row leaves what one consume(2 * count),
\* clamped to the cursor, leaves.
C9_ConsumeTwice ==
    [][/\ (ConsumeStep /\ op'.arg = 0 =>
              get_buffer' = get_buffer /\ read_buffer_pos' = read_buffer_pos)
       /\ (ConsumeStep /\ op.name = "consume" /\ op.arg = op'.arg =>
              LET n == Min(2 * op.arg, Len(prev))
              IN  /\ get_buffer' = SubSeq(prev, n + 1, Len(prev))
                  /\ read_buffer_pos' = Len(prev) - n)]_vars

\* consume(2) twice on three bytes: the second call had one byte to remove.
C9_Witness ==
    /\ op.name = "consume" /\ op.twice /\ op.arg = 2
    /\ Len(prev) = 1 /\ get_buffer = <<>>

\* C10: a poll() that reads the flag false returns at once: read window,
\* cursor, Shared Slot, Ready Flag and armed state are unchanged and
\* start_receive is not reached.
C10_PollNotReady ==
    [][~RX_READY /\ PollLoad =>
          /\ pc' = "idle"
          /\ UNCHANGED <<window, handoff, rx_buffer, res>>]_vars

\* Such a poll() returned while the hardware was armed and the window held bytes.
C10_Witness ==
    /\ op.name = "poll" /\ op.arg = 0 /\ pc = "idle"
    /\ armed # None /\ read_buffer_pos > 0

\* C11: the read window and its cursor change only in poll()'s drain, in
\* consume() and in clear(); no handler step changes them; consume() and
\* clear() leave the Shared Slot, the Ready Flag and the DMA state alone
\* (get_buffer() is a read and changes nothing).
C11_Frames ==
    [][/\ (window' # window => pc = "p_drain" \/ ConsumeStep \/ Clear)
       /\ (hpc # "idle" \/ hpc' # hpc => UNCHANGED window)
       /\ (ConsumeStep \/ Clear => UNCHANGED <<handoff, rx_buffer, pc>>)]_vars

\* The handler is about to set the flag while the window holds bytes left
\* by a consume().
C11_Witness ==
    /\ hpc = "h_flag" /\ op.name = "consume" /\ read_buffer_pos > 0
    /\ RX_BUFFER # None

\* C12: when the handler is about to write the completed buffer into the
\* Shared Slot, the slot is empty.
C12_SlotEmptyAtWrite == hpc = "h_write" => RX_BUFFER = None

\* The handler writes the buffer of a later cycle, after a poll() drained
\* the one before.
C12_Witness ==
    /\ hpc = "h_write" /\ data # None /\ RX_BUFFER = None
    /\ read_buffer_pos > 0 /\ op.name = "poll"

\* C13: whenever start_receive is about to be issued, in new() or in
\* poll(), reserve() has been called on the buffer since the arming before.
C13_ReserveBeforeArm ==
    pc \in {"n_start", "p_start", "p_start_cs"} => reserve_fresh

\* C14: the system is never left with a buffer in the Shared Slot, the
\* Ready Flag false, the DMA not armed, the main context outside poll()
\* and no handler running: a state in which no poll() would ever drain
\* the completed reception.
C14_NeverStuck ==
    ~(/\ pc = "idle" /\ hpc = "idle"
      /\ RX_BUFFER # None /\ ~RX_READY /\ armed = None)

\* C15: poll() issues start_receive only with the slot empty and the
\* buffer in hand with every byte popped; when start_receive succeeds the
\* slot is empty and the hardware holds the buffer.
C15_RearmAfterDrain ==
    [][/\ (pc' \in {"p_start", "p_start_cs"} =>
              RX_BUFFER' = None /\ rx_buffer' # None /\ Bytes(rx_buffer') = <<>>)
       /\ (pc = "p_start_cs" /\ pc' # pc /\ res' = "Ok" =>
              RX_BUFFER' = None /\ rx_buffer' = None /\ armed' # None)]_vars

\* A full window was drained and the buffer armed again.
C15_Witness ==
    /\ pc = "p_check" /\ res = "Ok" /\ read_buffer_pos = READ_BUF_SZ
    /\ armed # None /\ Bytes(armed) = <<>> /\ RX_BUFFER = None

\* C16: poll() takes the buffer only after it cleared the flag; poll()
\* never took more buffers than the handler put in the slot, and the flag
\* is true only while exactly one buffer waits to be drained.
C16_OneDrainPerCompletion ==
    /\ (pc \in {"p_take", "p_take_cs"} => ~RX_READY)
    /\ undrained >= 0
    /\ (RX_READY => undrained = 1)

\* The drain of a second completion: the counts are level again.
C16_Witness ==
    /\ pc = "p_drain" /\ undrained = 0 /\ ~RX_READY
    /\ read_buffer_pos > 0 /\ Bytes(rx_buffer) # <<>>

\* C17: the flag goes true only in the handler's last step, after the same
\* invocation wrote the buffer into the slot; poll() is past its flag read
\* only if it read true, and a poll() that reads false returns without
\* touching the slot.
C17_FlagOrder ==
    [][/\ (~RX_READY /\ RX_READY' => hpc = "h_flag" /\ RX_BUFFER # None /\ data = None)
       /\ (pc' \in {"p_store", "p_take", "p_take_cs"} => op'.name = "poll" /\ op'.arg = 1)
       /\ (pc = "idle" /\ op'.name = "poll" /\ op'.arg = 0 /\ PollLoad =>
              pc' = "idle" /\ RX_BUFFER' = RX_BUFFER)]_vars

\* The handler set the flag after a poll() that had read it false.
C17_Witness ==
    /\ RX_READY /\ RX_BUFFER # None /\ hpc = "idle" /\ pc = "idle"
    /\ op.name = "poll" /\ op.arg = 0 /\ read_buffer_pos > 0

\* C18: the main context changes the Shared Slot only with interrupts
\* disabled; while they are disabled no handler step happens; while the
\* handler runs the main context does not move.
C18_SlotAtomic ==
    [][/\ (RX_BUFFER' # RX_BUFFER /\ pc' # pc => masked /\ hpc = "idle" /\ hpc' = "idle")
       /\ (masked => hpc = "idle" /\ hpc' = "idle")
       /\ (hpc # "idle" => pc' = pc /\ rx_buffer' = rx_buffer)]_vars

\* poll() is inside free(), about to take a buffer out of the slot.
C18_Witness ==
    /\ pc = "p_take_cs" /\ masked /\ hpc = "idle"
    /\ RX_BUFFER # None /\ read_buffer_pos > 0

\* C19: a handler invocation that finds is_receive_interrupt() false
\* returns and leaves the Shared Slot, the Ready Flag, the pending
\* interrupt and the armed buffer as they were.
C19_NotReceiveInterrupt ==
    [][/\ (hpc = "idle" /\ hpc' # hpc => UNCHANGED <<handoff, data, window>>)
       /\ (hpc = "h_check" /\ ~rx_irq /\ hpc' # hpc =>
              hpc' = "idle" /\ UNCHANGED <<handoff, data, window>>)]_vars

\* The handler was invoked for the other source while a transfer is armed
\* and not complete.
C19_Witness ==
    /\ hpc = "h_check" /\ ~rx_irq /\ armed # None /\ ~dma_done
    /\ pc = "idle" /\ read_buffer_pos > 0

\* C20: when the handler clears the pending interrupt the completed buffer
\* is still in the peripheral, and when it retrieves the buffer the
\* interrupt is no longer pending.
C20_ClearBeforeComplete ==
    /\ (hpc = "h_clear" => rx_irq /\ armed # None /\ data = None)
    /\ (hpc = "h_complete" => ~rx_irq /\ armed # None /\ data = None)
    /\ (hpc = "h_write" => ~rx_irq /\ data # None)

\* The buffer was retrieved with its bytes after the interrupt was cleared.
C20_Witness ==
    /\ hpc = "h_write" /\ ~rx_irq /\ Bytes(data) # <<>> /\ armed = None

====
